---------------------------- MODULE Spec2Model ----------------------------
(***************************************************************************)
(* The CSS selector builder of src/src/05-objects-tasks.js: class Builder  *)
(* and the facade cssSelectorBuilder.  The state is the heap of Builder    *)
(* instances the client holds, the outcome of the last call and the lines  *)
(* that call wrote to the console.                                         *)
(***************************************************************************)
EXTENDS Integers, Sequences, FiniteSets, TLC

VARIABLES heap, last, console

vars == <<heap, last, console>>

---------------------------------------------------------------------------
(* Bounds of the exploration *)

\* Spec: number of values stored on all instances together (fragments, temp, comb)
MaxSize == 3
\* SpecChain: number of values stored on the one instance (fragments, temp)
MaxChain == 4

\* the strings the client passes as fragment values, in SpecChain and in Spec
Values == {"a", "b", ""}
TreeValues == {"a"}
\* the strings the client passes as combinator
Tokens == {"+", " "}

-------------------------------------------------------------------------------------------------------------------------------------------------
(* JavaScript values *)

\* The values a call returns: undefined, a reference to an instance, a string
Undefined == [t |-> "undefined"]
Ref(r) == [t |-> "object", r |-> r]
Str(s) == [t |-> "string", s |-> s]
\* the null the facade passes to the constructor
Null == [t |-> "null"]

\* An instance is the function from the names of its own properties to their
\* values: strings for pelement, pid, pattr, ppseudoElement, temp, combinator and
\* comb, sequences of strings for pclass and ppseudoClass, positions in the heap
\* for selector1 and selector2, Null for pcombine.
StringFields == {"pelement", "pid", "pattr", "ppseudoElement", "temp", "combinator", "comb"}
ArrayFields == {"pclass", "ppseudoClass"}
Fields == StringFields \cup ArrayFields \cup {"selector1", "selector2", "pcombine"}

\* an instance before its constructor has run: no own property
EmptyObject == [f \in {} |-> ""]

\* this[f] = v
Set(this, f, v) ==
  IF f \in DOMAIN this THEN [this EXCEPT ![f] = v] ELSE (f :> v) @@ this

\* if (this[f]): a missing property reads undefined, which is falsy, as are ''
\* and null; an array is truthy whatever it holds
Truthy(this, f) ==
  /\ f \in DOMAIN this
  /\ f \in StringFields => this[f] # ""
  /\ f # "pcombine"

\* the two messages thrown by the setters
DuplicateSingleton == "/Element, id and pseudo-element should not occur more then one time inside the selector/"
OutOfOrder == "/Selector parts should be arranged in the following order: element, id, class, attribute, pseudo-class, pseudo-element/"
NoError == "no error"

---------------------------------------------------------------------------
(* Builder.stringify *)

\* arr.map((item) => prefix + item).join('')
RECURSIVE MapJoin(_, _)
MapJoin(prefix, arr) ==
  IF arr = <<>> THEN "" ELSE (prefix \o Head(arr)) \o MapJoin(prefix, Tail(arr))

\* stringify with the classes rendered before the id
stringifyRes_ClassFirst(this) ==
  LET r1 == IF Truthy(this, "pelement") THEN this.pelement ELSE ""
      r2 == IF Truthy(this, "pclass") THEN r1 \o MapJoin(".", this.pclass) ELSE r1
      r3 == IF Truthy(this, "pid") THEN r2 \o ("#" \o this.pid) ELSE r2
      r4 == IF Truthy(this, "pattr") THEN r3 \o (("[" \o this.pattr) \o "]") ELSE r3
      r5 == IF Truthy(this, "ppseudoClass")
            THEN r4 \o MapJoin(":", this.ppseudoClass) ELSE r4
      r6 == IF Truthy(this, "ppseudoElement")
            THEN r5 \o ("::" \o this.ppseudoElement) ELSE r5
  IN r6

\* the value of res at the end of stringify, for an instance without comb
stringifyRes(this) ==
  LET r1 == IF Truthy(this, "pelement") THEN this.pelement ELSE ""
      r2 == IF Truthy(this, "pid") THEN r1 \o ("#" \o this.pid) ELSE r1
      r3 == IF Truthy(this, "pclass") THEN r2 \o MapJoin(".", this.pclass) ELSE r2
      r4 == IF Truthy(this, "pattr") THEN r3 \o (("[" \o this.pattr) \o "]") ELSE r3
      r5 == IF Truthy(this, "ppseudoClass")
            THEN r4 \o MapJoin(":", this.ppseudoClass) ELSE r4
      r6 == IF Truthy(this, "ppseudoElement")
            THEN r5 \o ("::" \o this.ppseudoElement) ELSE r5
  IN r6

\* the string stringify returns
stringify(this) ==
  IF Truthy(this, "comb") THEN this.comb ELSE stringifyRes(this)

\* the lines stringify writes: console.log('res ', res), skipped by the early return
stringifyLog(this) ==
  IF Truthy(this, "comb") THEN <<>> ELSE <<"res  " \o stringifyRes(this)>>

---------------------------------------------------------------------------
(* Builder.combine and the constructor *)

\* combine() with the second operand rendered first
combine_Swapped(h, this) ==
  Set(this, "comb",
      ((stringify(h[this.selector2]) \o " ") \o this.combinator)
        \o (" " \o stringify(h[this.selector1])))

\* combine(): caches the rendering of the two children in this.comb
combine(h, this) ==
  Set(this, "comb",
      ((stringify(h[this.selector1]) \o " ") \o this.combinator)
        \o (" " \o stringify(h[this.selector2])))

\* new Builder(selector, value, selector1, combinator, selector2)
Builder(h, selector, value, selector1, combinator, selector2) ==
  LET o1 == IF selector = "combine"
            THEN combine(h, Set(Set(Set(EmptyObject, "selector1", selector1),
                                    "combinator", combinator),
                                "selector2", selector2))
            ELSE EmptyObject
  IN IF selector = "class" \/ selector = "pseudoClass"
     THEN Set(o1, "p" \o selector, <<value>>)
     ELSE Set(o1, "p" \o selector, value)

\* what the constructor writes to the console (through combine)
BuilderLog(h, selector, selector1, selector2) ==
  IF selector = "combine"
  THEN stringifyLog(h[selector1]) \o stringifyLog(h[selector2])
  ELSE <<>>

---------------------------------------------------------------------------
(* The setters.  Each yields the instance after the call, the value        *)
(* returned and the message thrown (NoError when the call returns).        *)

Outcome(this, ret, err) == [this |-> this, ret |-> ret, err |-> err]

element(this, self, value) ==
  LET t == Set(this, "temp", value)
  IN IF Truthy(t, "pelement") THEN Outcome(t, Undefined, DuplicateSingleton)
     ELSE IF Truthy(t, "pid") \/ Truthy(t, "pclass") \/ Truthy(t, "pattr")
             \/ Truthy(t, "ppseudoClass") \/ Truthy(t, "ppseudoElement")
     THEN Outcome(t, Undefined, OutOfOrder)
     ELSE Outcome(t, Undefined, NoError)

\* id with the order check made before the uniqueness check
id_OrderFirst(this, self, value) ==
  IF Truthy(this, "pclass") \/ Truthy(this, "pattr")
     \/ Truthy(this, "ppseudoClass") \/ Truthy(this, "ppseudoElement")
  THEN Outcome(this, Undefined, OutOfOrder)
  ELSE IF Truthy(this, "pid") THEN Outcome(this, Undefined, DuplicateSingleton)
  ELSE Outcome(Set(this, "pid", value), self, NoError)

id(this, self, value) ==
  IF Truthy(this, "pid") THEN Outcome(this, Undefined, DuplicateSingleton)
  ELSE IF Truthy(this, "pclass") \/ Truthy(this, "pattr")
          \/ Truthy(this, "ppseudoClass") \/ Truthy(this, "ppseudoElement")
  THEN Outcome(this, Undefined, OutOfOrder)
  ELSE Outcome(Set(this, "pid", value), self, NoError)

\* class that skips a value the instance already holds
class_Dedup(this, self, value) ==
  IF Truthy(this, "pattr") \/ Truthy(this, "ppseudoClass") \/ Truthy(this, "ppseudoElement")
  THEN Outcome(this, Undefined, OutOfOrder)
  ELSE IF Truthy(this, "pclass")
  THEN IF \E n \in 1..Len(this.pclass) : this.pclass[n] = value
       THEN Outcome(this, self, NoError)
       ELSE Outcome(Set(this, "pclass", Append(this.pclass, value)), self, NoError)
  ELSE Outcome(Set(this, "pclass", <<value>>), self, NoError)

\* class with the attribute left out of the order check
class_NoAttrCheck(this, self, value) ==
  IF Truthy(this, "ppseudoClass") \/ Truthy(this, "ppseudoElement")
  THEN Outcome(this, Undefined, OutOfOrder)
  ELSE IF Truthy(this, "pclass")
  THEN Outcome(Set(this, "pclass", Append(this.pclass, value)), self, NoError)
  ELSE Outcome(Set(this, "pclass", <<value>>), self, NoError)

class(this, self, value) ==
  IF Truthy(this, "pattr") \/ Truthy(this, "ppseudoClass") \/ Truthy(this, "ppseudoElement")
  THEN Outcome(this, Undefined, OutOfOrder)
  ELSE IF Truthy(this, "pclass")
  THEN Outcome(Set(this, "pclass", Append(this.pclass, value)), self, NoError)
  ELSE Outcome(Set(this, "pclass", <<value>>), self, NoError)

attr(this, self, value) ==
  IF Truthy(this, "ppseudoClass") \/ Truthy(this, "ppseudoElement")
  THEN Outcome(this, Undefined, OutOfOrder)
  ELSE Outcome(Set(this, "pattr", value), self, NoError)

\* pseudoClass without the test for a pseudo-element
pseudoClass_NoOrderCheck(this, self, value) ==
  IF Truthy(this, "ppseudoClass")
  THEN Outcome(Set(this, "ppseudoClass", Append(this.ppseudoClass, value)), self, NoError)
  ELSE Outcome(Set(this, "ppseudoClass", <<value>>), self, NoError)

pseudoClass(this, self, value) ==
  IF Truthy(this, "ppseudoElement")
  THEN Outcome(this, Undefined, OutOfOrder)
  ELSE IF Truthy(this, "ppseudoClass")
  THEN Outcome(Set(this, "ppseudoClass", Append(this.ppseudoClass, value)), self, NoError)
  ELSE Outcome(Set(this, "ppseudoClass", <<value>>), self, NoError)

pseudoElement(this, self, value) ==
  IF Truthy(this, "ppseudoElement")
  THEN Outcome(this, Undefined, DuplicateSingleton)
  ELSE Outcome(Set(this, "ppseudoElement", value), self, NoError)

---------------------------------------------------------------------------
(* The state machine *)

\* number of values an instance stores in its fragment fields, temp and comb
ObjSize(o) ==
  LET one(f) == IF f \in DOMAIN o THEN 1 ELSE 0
      len(f) == IF f \in DOMAIN o THEN Len(o[f]) ELSE 0
  IN one("pelement") + one("pid") + len("pclass") + one("pattr")
     + len("ppseudoClass") + one("ppseudoElement") + one("temp") + one("comb")

RECURSIVE Size(_)
Size(h) == IF h = <<>> THEN 0 ELSE ObjSize(Head(h)) + Size(Tail(h))

\* the last call: the method, the instance it was called on (0 for the facade),
\* the arguments, the value returned and the message thrown
Call(op, self, args, ret, err) ==
  [op |-> op, self |-> self, args |-> args, ret |-> ret, err |-> err]

Init ==
  /\ heap = <<>>
  /\ last = Call("none", 0, <<>>, Undefined, NoError)
  /\ console = <<>>

\* cssSelectorBuilder.<selector>(value): a fresh instance seeded with one fragment
Create(selector, value, max) ==
  LET o == Builder(heap, selector, value, Null, Null, Null)
  IN /\ Size(heap) < max
     /\ heap' = Append(heap, o)
     /\ last' = Call("builder." \o selector, 0, <<value>>, Ref(Len(heap) + 1), NoError)
     /\ console' = BuilderLog(heap, selector, Null, Null)

cssSelectorBuilder_element(V, max) == \E value \in V : Create("element", value, max)
cssSelectorBuilder_id(V, max) == \E value \in V : Create("id", value, max)
cssSelectorBuilder_class(V, max) == \E value \in V : Create("class", value, max)
cssSelectorBuilder_attr(V, max) == \E value \in V : Create("attr", value, max)
cssSelectorBuilder_pseudoClass(V, max) == \E value \in V : Create("pseudoClass", value, max)
cssSelectorBuilder_pseudoElement(V, max) == \E value \in V : Create("pseudoElement", value, max)

\* combine that also stores the rendering on its first operand
cssSelectorBuilder_combine_Merge(max) ==
  /\ Size(heap) < max
  /\ \E s1 \in 1..Len(heap), s2 \in 1..Len(heap), c \in Tokens :
    LET o == Builder(heap, "combine", Null, s1, c, s2)
    IN /\ heap' = Append([heap EXCEPT ![s1] = Set(@, "comb", o.comb)], o)
       /\ last' = Call("builder.combine", 0, <<s1, c, s2>>, Ref(Len(heap) + 1), NoError)
       /\ console' = BuilderLog(heap, "combine", s1, s2)

\* cssSelectorBuilder.combine(selector1, combinator, selector2)
cssSelectorBuilder_combine(max) ==
  /\ Size(heap) < max
  /\ \E s1 \in 1..Len(heap), s2 \in 1..Len(heap), c \in Tokens :
    LET o == Builder(heap, "combine", Null, s1, c, s2)
    IN /\ heap' = Append(heap, o)
       /\ last' = Call("builder.combine", 0, <<s1, c, s2>>, Ref(Len(heap) + 1), NoError)
       /\ console' = BuilderLog(heap, "combine", s1, s2)

\* a setter whose outcome lands on every simple selector, as if the fields were
\* shared by the instances
Setter_Shared(op, i, value, out, max) ==
  /\ ObjSize(out.this) > ObjSize(heap[i]) => Size(heap) < max
  /\ heap' = [j \in 1..Len(heap) |->
                IF j = i \/ "comb" \notin DOMAIN heap[j] THEN out.this ELSE heap[j]]
  /\ last' = Call(op, i, <<value>>, out.ret, out.err)
  /\ console' = <<>>

\* a setter called on instance i; out is the setter's outcome
Setter(op, i, value, out, max) ==
  /\ ObjSize(out.this) > ObjSize(heap[i]) => Size(heap) < max
  /\ heap' = [heap EXCEPT ![i] = out.this]
  /\ last' = Call(op, i, <<value>>, out.ret, out.err)
  /\ console' = <<>>

Call_element(V, max) ==
  \E i \in 1..Len(heap), value \in V :
    Setter("element", i, value, element(heap[i], Ref(i), value), max)
Call_id(V, max) ==
  \E i \in 1..Len(heap), value \in V :
    Setter("id", i, value, id(heap[i], Ref(i), value), max)
Call_class(V, max) ==
  \E i \in 1..Len(heap), value \in V :
    Setter("class", i, value, class(heap[i], Ref(i), value), max)
Call_attr(V, max) ==
  \E i \in 1..Len(heap), value \in V :
    Setter("attr", i, value, attr(heap[i], Ref(i), value), max)
Call_pseudoClass(V, max) ==
  \E i \in 1..Len(heap), value \in V :
    Setter("pseudoClass", i, value, pseudoClass(heap[i], Ref(i), value), max)
Call_pseudoElement(V, max) ==
  \E i \in 1..Len(heap), value \in V :
    Setter("pseudoElement", i, value, pseudoElement(heap[i], Ref(i), value), max)

\* stringify() that keeps its result in this.comb
Call_stringify_Memo ==
  \E i \in 1..Len(heap) :
    /\ heap' = [heap EXCEPT ![i] = Set(@, "comb", stringify(heap[i]))]
    /\ last' = Call("stringify", i, <<>>, Str(stringify(heap[i])), NoError)
    /\ console' = stringifyLog(heap[i])

\* stringify() called on instance i
Call_stringify ==
  \E i \in 1..Len(heap) :
    /\ heap' = heap
    /\ last' = Call("stringify", i, <<>>, Str(stringify(heap[i])), NoError)
    /\ console' = stringifyLog(heap[i])

\* Spec: a client that creates instances through the facade, combines them and
\* calls the setters and stringify on any instance it holds, in any order
Next ==
  \/ cssSelectorBuilder_element(TreeValues, MaxSize)
  \/ cssSelectorBuilder_id(TreeValues, MaxSize)
  \/ cssSelectorBuilder_class(TreeValues, MaxSize)
  \/ cssSelectorBuilder_attr(TreeValues, MaxSize)
  \/ cssSelectorBuilder_pseudoClass(TreeValues, MaxSize)
  \/ cssSelectorBuilder_pseudoElement(TreeValues, MaxSize)
  \/ cssSelectorBuilder_combine(MaxSize)
  \/ Call_element(TreeValues, MaxSize)
  \/ Call_id(TreeValues, MaxSize)
  \/ Call_class(TreeValues, MaxSize)
  \/ Call_attr(TreeValues, MaxSize)
  \/ Call_pseudoClass(TreeValues, MaxSize)
  \/ Call_pseudoElement(TreeValues, MaxSize)
  \/ Call_stringify

Spec == Init /\ [][Next]_vars

\* SpecChain: a client that builds one simple selector by one chain of calls:
\* one facade call, then setters and stringify on the instance it returned
NextChain ==
  \/ heap = <<>> /\ cssSelectorBuilder_element(Values, MaxChain)
  \/ heap = <<>> /\ cssSelectorBuilder_id(Values, MaxChain)
  \/ heap = <<>> /\ cssSelectorBuilder_class(Values, MaxChain)
  \/ heap = <<>> /\ cssSelectorBuilder_attr(Values, MaxChain)
  \/ heap = <<>> /\ cssSelectorBuilder_pseudoClass(Values, MaxChain)
  \/ heap = <<>> /\ cssSelectorBuilder_pseudoElement(Values, MaxChain)
  \/ Call_element(Values, MaxChain)
  \/ Call_id(Values, MaxChain)
  \/ Call_class(Values, MaxChain)
  \/ Call_attr(Values, MaxChain)
  \/ Call_pseudoClass(Values, MaxChain)
  \/ Call_pseudoElement(Values, MaxChain)
  \/ Call_stringify

SpecChain == Init /\ [][NextChain]_vars

TypeOK ==
  /\ \A i \in 1..Len(heap) : DOMAIN heap[i] \subseteq Fields
  /\ last.self \in 0..Len(heap)

---------------------------------------------------------------------------
(* Vocabulary of the claims *)

\* the six stages of the ordering grammar: the setter and the field it fills
Setters == <<"element", "id", "class", "attr", "pseudoClass", "pseudoElement">>
Stage == <<"pelement", "pid", "pclass", "pattr", "ppseudoClass", "ppseudoElement">>
SetterNames == {Setters[k] : k \in 1..6}
\* the stages that may occur once only
Singletons == {1, 2, 6}

\* the fragment of stage k has been set on the instance, whatever its value
IsSet(o, k) == Stage[k] \in DOMAIN o
LaterSet(o, k) == \E j \in (k + 1)..6 : IsSet(o, j)

\* a simple selector: an instance that is no combinator expression
Simple(o) == DOMAIN o \cap {"selector1", "combinator", "selector2", "comb"} = {}

\* every fragment value the instance holds is a non-empty string
NonEmpty(o) ==
  /\ \A f \in DOMAIN o \cap {"pelement", "pid", "pattr", "ppseudoElement"} : o[f] # ""
  /\ \A f \in DOMAIN o \cap ArrayFields : \A n \in 1..Len(o[f]) : o[f][n] # ""

\* the outcome of calling the setter of stage k on instance i with value v
Apply(k, i, v) ==
  CASE k = 1 -> element(heap[i], Ref(i), v)
    [] k = 2 -> id(heap[i], Ref(i), v)
    [] k = 3 -> class(heap[i], Ref(i), v)
    [] k = 4 -> attr(heap[i], Ref(i), v)
    [] k = 5 -> pseudoClass(heap[i], Ref(i), v)
    [] k = 6 -> pseudoElement(heap[i], Ref(i), v)

\* the instances the claims about simple selectors with non-empty values cover
Covered == {i \in 1..Len(heap) : Simple(heap[i]) /\ NonEmpty(heap[i])}

---------------------------------------------------------------------------
(* C1: ordering grammar *)

\* C1 as stated: on a simple selector with non-empty values, every setter raises
\* OutOfOrder when a fragment of a later stage is set, and raises nothing when no
\* later stage is set and (element, id, pseudoElement) its own fragment is unset.
C1_AsStated ==
  \A i \in Covered : \A k \in 1..6 : \A v \in Values :
    /\ LaterSet(heap[i], k) => Apply(k, i, v).err = OutOfOrder
    /\ (~LaterSet(heap[i], k) /\ (k \in Singletons => ~IsSet(heap[i], k)))
         => Apply(k, i, v).err = NoError

\* C1 amended: on a simple selector with non-empty values, a setter called while
\* a fragment of a later stage is set always raises; it raises OutOfOrder unless
\* it is element, id or pseudoElement and its own fragment is set too, in which
\* case it raises DuplicateSingleton; and it raises nothing when no later stage
\* is set and (element, id, pseudoElement) its own fragment is unset.
C1_Ordering ==
  \A i \in Covered : \A k \in 1..6 : \A v \in Values :
    /\ LaterSet(heap[i], k) =>
         Apply(k, i, v).err =
           (IF k \in Singletons /\ IsSet(heap[i], k) THEN DuplicateSingleton ELSE OutOfOrder)
    /\ (~LaterSet(heap[i], k) /\ (k \in Singletons => ~IsSet(heap[i], k)))
         => Apply(k, i, v).err = NoError

\* a setter has just raised OutOfOrder on a simple selector that holds a later stage
C1_Witness ==
  /\ last.op \in SetterNames
  /\ last.err = OutOfOrder
  /\ last.self \in Covered
  /\ \E k \in 1..6 : Setters[k] = last.op /\ LaterSet(heap[last.self], k)

---------------------------------------------------------------------------
(* C2: uniqueness *)

\* C2: on a simple selector whose element (id, pseudoElement) is set to a
\* non-empty value, calling element (id, pseudoElement) again raises
\* DuplicateSingleton, also when later stages are set, and the two messages differ.
C2_Uniqueness ==
  /\ DuplicateSingleton # OutOfOrder
  /\ \A i \in 1..Len(heap) : \A k \in Singletons : \A v \in Values :
       (Simple(heap[i]) /\ IsSet(heap[i], k) /\ heap[i][Stage[k]] # "")
         => Apply(k, i, v).err = DuplicateSingleton
  /\ (last.op \in {"element", "id", "pseudoElement"} /\ last.self \in 1..Len(heap))
       => \A k \in Singletons :
            (Setters[k] = last.op /\ Simple(heap[last.self]) /\ last.err = OutOfOrder)
              => ~(IsSet(heap[last.self], k) /\ heap[last.self][Stage[k]] # "")

\* id(a).class(b).id(c): the second id raised DuplicateSingleton with a class set
C2_Witness ==
  /\ last.op = "id"
  /\ last.err = DuplicateSingleton
  /\ last.self \in Covered
  /\ IsSet(heap[last.self], 3)

---------------------------------------------------------------------------
(* C3: serialization of a simple selector *)

\* the concatenation of a sequence of strings
RECURSIVE Cat(_)
Cat(ss) == IF ss = <<>> THEN "" ELSE Head(ss) \o Cat(Tail(ss))

\* the fragments that were set, each with its punctuation, in the fixed order
Rendering(o) ==
  (IF IsSet(o, 1) THEN <<o.pelement>> ELSE <<>>)
  \o (IF IsSet(o, 2) THEN <<"#" \o o.pid>> ELSE <<>>)
  \o (IF IsSet(o, 3) THEN [n \in 1..Len(o.pclass) |-> "." \o o.pclass[n]] ELSE <<>>)
  \o (IF IsSet(o, 4) THEN <<"[" \o o.pattr \o "]">> ELSE <<>>)
  \o (IF IsSet(o, 5) THEN [n \in 1..Len(o.ppseudoClass) |-> ":" \o o.ppseudoClass[n]]
                     ELSE <<>>)
  \o (IF IsSet(o, 6) THEN <<"::" \o o.ppseudoElement>> ELSE <<>>)

\* C3: on a simple selector with non-empty values stringify() returns the set
\* fragments with their punctuation, concatenated in the fixed order without
\* separators, the unset ones omitted; id(a).class(b).class(a) gives '#a.b.a'.
C3_Serialization ==
  /\ \A i \in Covered : stringify(heap[i]) = Cat(Rendering(heap[i]))
  /\ (last.op = "stringify" /\ last.self \in Covered)
       => last.ret = Str(Cat(Rendering(heap[last.self])))
  /\ \A i \in 1..Len(heap) :
       heap[i] = [pid |-> "a", pclass |-> <<"b", "a">>] => stringify(heap[i]) = "#a.b.a"

\* stringify() has just returned '#a.b.a' on id(a).class(b).class(a)
C3_Witness ==
  /\ last.op = "stringify"
  /\ last.ret = Str("#a.b.a")
  /\ last.self \in Covered
  /\ heap[last.self] = [pid |-> "a", pclass |-> <<"b", "a">>]

---------------------------------------------------------------------------
(* C4: serialization of a combinator *)

\* the cached rendering of a combinator is that of its operands as they are now
Fresh(o) ==
  o.comb = stringify(heap[o.selector1]) \o " " \o o.combinator \o " "
             \o stringify(heap[o.selector2])

\* C4: right after combine(A, t, B) the new expression renders as A.stringify(),
\* a space, the token t as passed, a space, B.stringify(); the token ' ' gives
\* three spaces; and combine(combine(A, t1, B), t2, C) renders fully expanded.
C4_Combine ==
  last.op = "builder.combine" =>
    LET o == heap[Len(heap)]
        A == heap[last.args[1]]
        t == last.args[2]
        B == heap[last.args[3]]
    IN /\ last.ret = Ref(Len(heap))
       /\ stringify(o) = stringify(A) \o " " \o t \o " " \o stringify(B)
       /\ t = " " => stringify(o) = stringify(A) \o "   " \o stringify(B)
       /\ ("comb" \in DOMAIN A /\ Fresh(A)) =>
            stringify(o) = stringify(heap[A.selector1]) \o " " \o A.combinator \o " "
                             \o stringify(heap[A.selector2]) \o " " \o t \o " "
                             \o stringify(B)

\* combine has just been called with a combinator expression as first operand
\* and the descendant token
C4_Witness ==
  /\ last.op = "builder.combine"
  /\ "comb" \in DOMAIN heap[last.args[1]]
  /\ Fresh(heap[last.args[1]])
  /\ last.args[2] = " "

---------------------------------------------------------------------------
(* C5: chainability *)

\* C5: every setter call that returns without raising returns the instance it
\* was called on.
C5_Chainable ==
  (last.op \in SetterNames /\ last.err = NoError) => last.ret = Ref(last.self)

---------------------------------------------------------------------------
(* C6: class and pseudoClass accumulate *)

\* the sequence an instance holds in an array field (empty while unset)
Entries(o, f) == IF f \in DOMAIN o THEN o[f] ELSE <<>>

\* C6: a class (pseudoClass) call never raises DuplicateSingleton; one that
\* returns appends its value at the end of the sequence, which so grows by one
\* entry and keeps earlier entries and repeated values; the facade seeds a
\* sequence of one entry; class(a).class(a) renders '.a.a'.
C6_Accumulate ==
  [][\A k \in {3, 5} :
       /\ last'.op = Setters[k] =>
            /\ last'.err # DuplicateSingleton
            /\ last'.err = NoError =>
                 /\ heap'[last'.self][Stage[k]]
                      = Append(Entries(heap[last'.self], Stage[k]), last'.args[1])
                 /\ \A f \in DOMAIN heap[last'.self] \ {Stage[k]} :
                      heap'[last'.self][f] = heap[last'.self][f]
       /\ last'.op = "builder." \o Setters[k] =>
            heap'[Len(heap')][Stage[k]] = <<last'.args[1]>>
       /\ \A i \in 1..Len(heap') :
            heap'[i] = [pclass |-> <<"a", "a">>] => stringify(heap'[i]) = ".a.a"
    ]_vars

\* class(a).class(a): the second call has just returned and both entries are kept
C6_Witness ==
  /\ last.op = "class"
  /\ last.err = NoError
  /\ heap[last.self] = [pclass |-> <<"a", "a">>]

---------------------------------------------------------------------------
(* C7: attr overwrites *)

\* the instance without one of its properties
Without(o, f) == [g \in DOMAIN o \ {f} |-> o[g]]

\* C7: with no pseudoClass and no pseudoElement set, attr(v) on an instance that
\* already holds an attribute does not raise, stores v, leaves the other fields
\* alone, and stringify() then ends with the one clause '[v]'.
C7_AttrOverwrites ==
  \A i \in 1..Len(heap) : \A v \in Values :
    (Simple(heap[i]) /\ IsSet(heap[i], 4) /\ ~IsSet(heap[i], 5) /\ ~IsSet(heap[i], 6)) =>
      LET out == attr(heap[i], Ref(i), v)
      IN /\ out.err = NoError
         /\ out.this = Set(heap[i], "pattr", v)
         /\ stringify(out.this)
              = stringify(Without(heap[i], "pattr")) \o "[" \o v \o "]"

---------------------------------------------------------------------------
(* C8: a raising setter changes nothing *)

\* C8: a setter call that raises leaves every field of the instance as it was.
C8_FailedCallNoChange ==
  \A i \in 1..Len(heap) : \A k \in 1..6 : \A v \in Values :
    Apply(k, i, v).err # NoError => Apply(k, i, v).this = heap[i]

---------------------------------------------------------------------------
(* C9: stringify is idempotent and changes nothing *)

\* C9: a stringify() call changes no field of any instance, and when it follows
\* a stringify() call on the same instance it returns the same string.
C9_StringifyPure ==
  [][last'.op = "stringify" =>
       /\ heap' = heap
       /\ last'.ret = Str(stringify(heap'[last'.self]))
       /\ (last.op = "stringify" /\ last.self = last'.self) => last'.ret = last.ret
    ]_vars

\* stringify() has just returned on a combinator expression
C9_Witness ==
  /\ last.op = "stringify"
  /\ "comb" \in DOMAIN heap[last.self]
  /\ last.ret = Str(stringify(heap[last.self]))

---------------------------------------------------------------------------
(* C10: combine does not mutate its operands *)

\* C10: combine leaves every instance that existed before the call, its operands
\* among them, with the same fields and the same stringify() result, and every
\* setter has the same outcome on them as before.
C10_CombineFrame ==
  [][(last'.op = "builder.combine" /\ Len(heap') = Len(heap) + 1) =>
       /\ SubSeq(heap', 1, Len(heap)) = heap
       /\ \A i \in {last'.args[1], last'.args[3]} :
            /\ heap'[i] = heap[i]
            /\ stringify(heap'[i]) = stringify(heap[i])
            /\ \A k \in 1..6 : \A v \in TreeValues : Apply(k, i, v)' = Apply(k, i, v)
    ]_vars

\* combine has just been called on two different instances
C10_Witness ==
  /\ last.op = "builder.combine"
  /\ last.args[1] # last.args[3]
  /\ Simple(heap[last.args[1]])
  /\ Simple(heap[last.args[3]])

---------------------------------------------------------------------------
(* C11: a combinator renders its operands as they are now *)

\* the combinator expressions among the instances
Combinators == {i \in 1..Len(heap) : "comb" \in DOMAIN heap[i]}

\* C11: in every state, stringify() of a combinator expression equals
\* stringify() of its left operand, a space, the token, a space and stringify()
\* of its right operand, all evaluated in that state.
C11_RendersCurrent ==
  \A i \in Combinators :
    stringify(heap[i]) = stringify(heap[heap[i].selector1]) \o " " \o heap[i].combinator
                           \o " " \o stringify(heap[heap[i].selector2])

---------------------------------------------------------------------------
(* C12: a combinator holds no fragment *)

\* C12: in every state, an instance produced by combine has none of element, id,
\* classes, attr, pseudo-classes and pseudo-element set.
C12_NoFragments ==
  \A i \in Combinators : \A k \in 1..6 : ~IsSet(heap[i], k)

---------------------------------------------------------------------------
(* C13: instances are independent *)

\* C13: each of the six fragment entry points of the facade returns a new
\* instance that holds the seeded fragment and nothing else, leaving the existing
\* instances alone; and a setter call, raising or not, changes no field and no
\* stringify() result of any instance other than the one it is called on.
C13_Independent ==
  [][/\ \A k \in 1..6 :
          last'.op = "builder." \o Setters[k] =>
            /\ Len(heap') = Len(heap) + 1
            /\ last'.ret = Ref(Len(heap'))
            /\ SubSeq(heap', 1, Len(heap)) = heap
            /\ DOMAIN heap'[Len(heap')] = {Stage[k]}
            /\ heap'[Len(heap')][Stage[k]]
                 = (IF Stage[k] \in ArrayFields THEN <<last'.args[1]>> ELSE last'.args[1])
     /\ last'.op \in SetterNames =>
          /\ Len(heap') = Len(heap)
          /\ \A j \in 1..Len(heap) \ {last'.self} :
               /\ heap'[j] = heap[j]
               /\ stringify(heap'[j]) = stringify(heap[j])
    ]_vars

\* a setter has just stored a fragment on one of two simple selectors, which now
\* differ
C13_Witness ==
  /\ last.op \in SetterNames
  /\ last.err = NoError
  /\ last.ret = Ref(last.self)
  /\ \E j \in 1..Len(heap) \ {last.self} :
       /\ Simple(heap[j])
       /\ Simple(heap[last.self])
       /\ heap[j] # heap[last.self]
       /\ ObjSize(heap[j]) = 1

---------------------------------------------------------------------------
(* C14: the empty string as a fragment value *)

\* C14: a fragment supplied as the empty string is set like any other: on every
\* simple selector, whatever its values, element (id, pseudoElement) raises
\* DuplicateSingleton when its own fragment is set, every other setter call made
\* while a later stage is set raises OutOfOrder, and stringify() emits the
\* punctuation of every set fragment, so id('') renders '#' and attr('') '[]'.
C14_EmptyIsSet ==
  \A i \in 1..Len(heap) :
    Simple(heap[i]) =>
      /\ \A k \in 1..6 : \A v \in Values :
           /\ (k \in Singletons /\ IsSet(heap[i], k))
                => Apply(k, i, v).err = DuplicateSingleton
           /\ (LaterSet(heap[i], k) /\ ~(k \in Singletons /\ IsSet(heap[i], k)))
                => Apply(k, i, v).err = OutOfOrder
      /\ stringify(heap[i]) = Cat(Rendering(heap[i]))

---------------------------------------------------------------------------
(* C15: rendering order equals call order *)

\* the rendering of one call of stage k with value v
Piece(k, v) ==
  CASE k = 1 -> v
    [] k = 2 -> "#" \o v
    [] k = 3 -> "." \o v
    [] k = 4 -> "[" \o v \o "]"
    [] k = 5 -> ":" \o v
    [] k = 6 -> "::" \o v

\* C15: a facade call with a non-empty value gives an instance that renders as
\* that call's piece; and a setter call with a non-empty value that returns
\* without raising, on a simple selector with non-empty values whose attr is not
\* set again, appends its piece at the end of the rendering, and is made while no
\* later stage is set and (element, id, pseudoElement) its own fragment is unset.
\* So stringify() is the concatenation of the pieces in call order.
C15_CallOrder ==
  [][\A k \in 1..6 :
       /\ (last'.op = "builder." \o Setters[k] /\ last'.args[1] # "") =>
            stringify(heap'[Len(heap')]) = Piece(k, last'.args[1])
       /\ (/\ last'.op = Setters[k]
           /\ last'.err = NoError
           /\ last'.self \in Covered
           /\ last'.args[1] # ""
           /\ ~(k = 4 /\ IsSet(heap[last'.self], 4))) =>
            /\ stringify(heap'[last'.self])
                 = stringify(heap[last'.self]) \o Piece(k, last'.args[1])
            /\ ~LaterSet(heap[last'.self], k)
            /\ k \in Singletons => ~IsSet(heap[last'.self], k)
    ]_vars

\* element(a).attr(b).pseudoClass(a): the third call has just returned
C15_Witness ==
  /\ last.op = "pseudoClass"
  /\ last.err = NoError
  /\ last.args = <<"a">>
  /\ heap[last.self] = [pelement |-> "a", pattr |-> "b", ppseudoClass |-> <<"a">>]
  /\ stringify(heap[last.self]) = "a[b]:a"

=============================================================================
